---- MODULE Spec2Model ----
(***************************************************************************)
(* A model of github.com/m0t0k1ch1-go/sqlutil: the transaction runner      *)
(* Transact (one call, and several interleaved calls), the script executor *)
(* ExecFile and the fixture helper TruncateAll, in every revision the      *)
(* sources hold.  Each has a specification of its own.                     *)
(*                                                                         *)
(* Errors are modelled as chains: a sequence of layers, outermost first.   *)
(* The empty chain is Go's nil error.  Wrapping prepends a layer, and      *)
(* errors.Is walks the chain.                                              *)
(***************************************************************************)
EXTENDS Naturals, Sequences, FiniteSets

VARIABLES
    version,    \* which revision of Transact runs
    pc,         \* position of the Transact invocation
    tx,         \* state of the transaction handle
    txView,     \* the rows as seen inside the transaction
    db,         \* the committed rows
    dbBefore,   \* the committed rows when Transact was entered
    written,    \* the writes the callback made through the handle
    nExec,      \* number of tx.ExecContext calls the callback made
    calls,      \* calls Transact made: BeginTx, f, Commit, Rollback
    err,        \* Transact's named result err
    outcome,    \* how the callback ended
    result      \* what Transact's caller observes

txVars == <<version, pc, tx, txView, db, dbBefore, written, nExec, calls,
            err, outcome, result>>

VARIABLES
    efVersion,  \* which revision of ExecFile runs
    efpc,       \* position of the ExecFile invocation
    path,       \* ExecFile's path argument
    file,       \* what the filesystem holds at path
    fsReads,    \* number of os.ReadFile calls
    stmtNodes,  \* the parsed statements
    idx,        \* the statement the loop is at
    buf,        \* the reused bytes.Buffer
    execCalls,  \* the queries handed to ExecContext, in order
    applied,    \* the queries the executor carried out
    efResult    \* what ExecFile returned

efVars == <<efVersion, efpc, path, file, fsReads, stmtNodes, idx, buf,
            execCalls, applied, efResult>>

VARIABLES
    taVersion,  \* which revision of TruncateAll runs
    tapc,       \* position of the TruncateAll invocation
    listing,    \* the table names SHOW TABLES yields, in order
    cursor,     \* number of rows the row cursor has delivered
    tableNames, \* the names listAllTableNames has collected
    kTrunc,     \* the name the truncate loop is at
    tableRows,  \* number of rows each table holds
    truncCalls, \* the tables handed to TRUNCATE, in order
    listFault,  \* what failed in the listing, if anything
    truncFault, \* whether a TRUNCATE failed
    taResult    \* what TruncateAll returned

taVars == <<taVersion, tapc, listing, cursor, tableNames, kTrunc, tableRows,
            truncCalls, listFault, truncFault, taResult>>

VARIABLES
    cVersion,    \* which revision of Transact the concurrent calls run
    cpc,         \* position of each Transact invocation
    cTx,         \* the local tx of each invocation's frame
    cErr,        \* the named result err of each invocation's frame
    cOutcome,    \* how each invocation's callback ended
    cResult,     \* what each invocation's caller observes
    owner,       \* the invocation whose BeginTx returned each handle
    handleState, \* state of each transaction handle
    hCalls,      \* Commit and Rollback calls made on each handle, with caller
    cCalls       \* calls each invocation made, with the handle involved

ccVars == <<cVersion, cpc, cTx, cErr, cOutcome, cResult, owner, handleState,
            hCalls, cCalls>>

vars == <<txVars, efVars, taVars, ccVars>>

----------------------------------------------------------------------------
(* Bounds *)

MaxExec == 2
MaxFileLen == 5
MaxTables == 3
NProcs == 2

----------------------------------------------------------------------------
(* Errors *)

Nil == << >>

\* errors.Wrap / oops.Wrapf: nil stays nil, otherwise a layer is added.
Wrapf(e, msg) == IF e = Nil THEN Nil ELSE <<msg>> \o e

\* oops.Wrap: nil stays nil, otherwise a layer without a message is added.
Wrap(e) == IF e = Nil THEN Nil ELSE <<"">> \o e

\* errors.Is: some error of the chain is the target.
ErrorsIs(e, target) ==
    \E i \in 1..Len(e) : SubSeq(e, i, Len(e)) = target

ErrBegin    == <<"begin refused">>
ErrCommit   == <<"commit refused">>
ErrRollback == <<"rollback refused">>
ErrSomethingWentWrong == <<"something went wrong">>
ErrExec   == <<"exec refused">>

\* The failures a callback returns: a sentinel, or a wrapped driver error.
WorkErrors == {ErrSomethingWentWrong, Wrapf(ErrExec, "failed to update task")}

----------------------------------------------------------------------------
(* Transact *)

Versions == {"oops_wrap", "plain"}

Rows   == {1, 2}
Values == {0, 1}

\* Panic values.  PanicNil is a nil panic value as the runtime keeps it when
\* the package is built with a Go release before 1.21 (or panicnil=1); later
\* releases turn it into a non-nil *runtime.PanicNilError at the panic.
NoValue == "no value"
PanicNil == "nil"
PanicValues == {"boom", "PanicNilError", PanicNil}

NoOutcome == [kind |-> "none", err |-> Nil, r |-> NoValue]
Pending   == [kind |-> "pending", err |-> Nil, r |-> NoValue]

Returned(e) == [kind |-> "return", err |-> e, r |-> NoValue]
Panicked(r) == [kind |-> "panic", err |-> Nil, r |-> r]
Exited      == [kind |-> "goexit", err |-> Nil, r |-> NoValue]

InitTransact ==
    /\ version \in Versions
    /\ pc = "start"
    /\ tx = "none"
    /\ db \in [Rows -> Values]
    /\ txView = db
    /\ dbBefore = db
    /\ written = << >>
    /\ nExec = 0
    /\ calls = << >>
    /\ err = Nil
    /\ outcome = NoOutcome
    /\ result = Pending

\* (mutant) BeginTx's error is not checked.
AfterBeginErrorContinues == "invoke"

\* Where Transact goes when BeginTx failed: it returns.
AfterBeginError == "done"

\* tx, err = txStarter.BeginTx(ctx, nil), and the early return.
BeginTx(ok) ==
    /\ pc = "start"
    /\ calls' = Append(calls, "BeginTx")
    /\ IF ok
       THEN /\ tx' = "open"
            /\ txView' = db
            /\ pc' = "invoke"
            /\ UNCHANGED <<err, result>>
       ELSE /\ err' = Wrapf(ErrBegin, "failed to begin transaction")
            /\ result' = Returned(err')
            /\ pc' = AfterBeginError
            /\ UNCHANGED <<tx, txView>>
    /\ UNCHANGED <<efVars, taVars, ccVars>>
    /\ UNCHANGED <<version, db, dbBefore, written, nExec, outcome>>

\* The deferred function is registered and f(ctx, tx) is entered.
InvokeF ==
    /\ pc = "invoke"
    /\ calls' = Append(calls, "f")
    /\ pc' = "callback"
    /\ UNCHANGED <<efVars, taVars, ccVars>>
    /\ UNCHANGED <<version, tx, txView, db, dbBefore, written, nExec, err,
                   outcome, result>>

\* The callback writes a row through the handle.
TxExec(row, val, ok) ==
    /\ pc = "callback"
    /\ nExec < MaxExec
    /\ nExec' = nExec + 1
    /\ IF ok
       THEN /\ txView' = [txView EXCEPT ![row] = val]
            /\ written' = Append(written, <<row, val>>)
       ELSE UNCHANGED <<txView, written>>
    /\ UNCHANGED <<efVars, taVars, ccVars>>
    /\ UNCHANGED <<version, pc, tx, db, dbBefore, calls, err, outcome, result>>

\* (mutant) the callback's error is replaced by a new error with its text.
WorkErrFlattened(v, e) == IF e = Nil THEN Nil ELSE <<"flattened">>

\* What Transact stores in err when f returned e.
WorkErr(v, e) == IF v = "oops_wrap" THEN Wrap(e) ELSE e

\* err = f(ctx, tx) returns normally.
FReturn(e) ==
    /\ pc = "callback"
    /\ outcome' = Returned(e)
    /\ err' = WorkErr(version, e)
    /\ pc' = "deferred"
    /\ UNCHANGED <<efVars, taVars, ccVars>>
    /\ UNCHANGED <<version, tx, txView, db, dbBefore, written, nExec, calls,
                   result>>

\* f panics: err is not assigned.
FPanic(r) ==
    /\ pc = "callback"
    /\ outcome' = Panicked(r)
    /\ pc' = "deferred"
    /\ UNCHANGED <<efVars, taVars, ccVars>>
    /\ UNCHANGED <<version, tx, txView, db, dbBefore, written, nExec, calls,
                   err, result>>

\* f ends the goroutine (runtime.Goexit, testing's FailNow): err is not
\* assigned, the deferred function still runs.
FGoexit ==
    /\ pc = "callback"
    /\ outcome' = Exited
    /\ pc' = "deferred"
    /\ UNCHANGED <<efVars, taVars, ccVars>>
    /\ UNCHANGED <<version, tx, txView, db, dbBefore, written, nExec, calls,
                   err, result>>

\* The value recover() yields in the deferred function: the panic value, and
\* nil when there is no panic, when the goroutine is exiting, or when the
\* panic value itself is nil.
Recover(o) ==
    IF o.kind = "panic" /\ o.r # PanicNil THEN o.r ELSE NoValue

\* (mutant) the deferred function does not look at err.
DeferBranchCommitsOnError(r, e) ==
    IF r # NoValue THEN "repanic" ELSE "commit"

\* The branch the deferred function takes on the recovered value r and err.
DeferBranch(r, e) ==
    IF r # NoValue THEN "repanic"
    ELSE IF e # Nil THEN "rollback"
    ELSE "commit"

\* (mutant) a failed Commit is followed by a Rollback.
HandleCallsRollbackAfterCommit(branch, ok) ==
    IF branch = "commit"
    THEN IF ok THEN <<"Commit">> ELSE <<"Commit", "Rollback">>
    ELSE <<"Rollback">>

\* (mutant) a failed Commit is tried again.
HandleCallsRetriesCommit(branch, ok) ==
    IF branch = "commit"
    THEN IF ok THEN <<"Commit">> ELSE <<"Commit", "Commit">>
    ELSE <<"Rollback">>

\* The calls the deferred function makes on the handle; ok is the outcome
\* of that call.
HandleCalls(branch, ok) ==
    IF branch = "commit" THEN <<"Commit">> ELSE <<"Rollback">>

\* (mutant) the result of Commit is dropped.
DeferredErrDropsCommit(branch, e, ok) ==
    IF branch = "commit" THEN Nil ELSE e

\* (mutant) the error of Commit is returned as it is.
DeferredErrBareCommit(branch, e, ok) ==
    IF branch = "commit" THEN (IF ok THEN Nil ELSE ErrCommit) ELSE e

\* (mutant) a failed Rollback replaces err.
DeferredErrReportsRollback(branch, e, ok) ==
    IF branch = "commit"
    THEN IF ok THEN Nil ELSE Wrapf(ErrCommit, "failed to commit transaction")
    ELSE IF ok THEN e ELSE Wrapf(ErrRollback, "failed to rollback transaction")

\* err when the deferred function is over: only a failed Commit assigns it.
DeferredErr(branch, e, ok) ==
    IF branch = "commit"
    THEN IF ok THEN Nil ELSE Wrapf(ErrCommit, "failed to commit transaction")
    ELSE e

\* What a sequence of calls does to the handle and to the committed rows.
\* Only the first call finds the transaction open; a Commit that succeeds
\* publishes the writes, everything else discards them.
TxAfter(cs, ok) ==
    IF cs[1] = "Commit"
    THEN IF ok THEN "committed" ELSE "commit failed"
    ELSE IF ok THEN "rolled back" ELSE "rollback failed"

DbAfter(cs, ok, d, view) ==
    IF cs[1] = "Commit" /\ ok THEN view ELSE d

\* The deferred function: recover, then roll back or commit.
Deferred(ok) ==
    /\ pc = "deferred"
    /\ LET r  == Recover(outcome)
           b  == DeferBranch(r, err)
           cs == HandleCalls(b, ok)
       IN  /\ calls' = calls \o cs
           /\ tx' = TxAfter(cs, ok)
           /\ db' = DbAfter(cs, ok, db, txView)
           /\ err' = DeferredErr(b, err, ok)
           /\ result' = IF b = "repanic" THEN Panicked(r)
                         ELSE IF outcome.kind = "goexit" THEN Exited
                         ELSE Returned(err')
    /\ pc' = "done"
    /\ UNCHANGED <<efVars, taVars, ccVars>>
    /\ UNCHANGED <<version, txView, dbBefore, written, nExec, outcome>>

----------------------------------------------------------------------------
(* ExecFile *)

EfVersions == {"single", "parsed"}

\* Paths are strings, as sequences of characters.
Paths == {<<"/", "s">>, <<"s">>, <<".", "/", "s">>, << >>}

\* A file is a text of SQL tokens: "a" and "b" are words, ";" ends a
\* statement and "#" is something the parser rejects.
Tokens == {"a", "b", ";", "#"}

RECURSIVE Texts(_)
Texts(n) ==
    IF n = 0 THEN {<< >>}
    ELSE Texts(n - 1) \cup
         {Append(t, c) : t \in {u \in Texts(n - 1) : Len(u) = n - 1}, c \in Tokens}

NoFile == <<"no such file">>
Files == Texts(MaxFileLen) \cup {NoFile}

StillRunning == <<"still running">>
ErrPath    == <<"path must be absolute">>
ErrRead    == <<"read refused">>
ErrParse   == <<"syntax error">>
ErrRestore == <<"restore refused">>
ErrExecSQL == <<"statement refused">>

\* (mutant) a slash anywhere makes the path absolute.
IsAbsAnywhere(p) == \E i \in 1..Len(p) : p[i] = "/"

\* filepath.IsAbs on Unix: the path starts with a slash.
IsAbs(p) == Len(p) > 0 /\ p[1] = "/"

\* parser.Parse: the statements of the text, in source order; empty
\* statements yield no node.
RECURSIVE Split(_, _)
Split(text, cur) ==
    IF text = << >> THEN (IF cur = << >> THEN << >> ELSE <<cur>>)
    ELSE IF Head(text) = ";"
         THEN (IF cur = << >> THEN << >> ELSE <<cur>>) \o Split(Tail(text), << >>)
         ELSE Split(Tail(text), Append(cur, Head(text)))

ParseFails(text) == \E i \in 1..Len(text) : text[i] = "#"

Parse(text) == Split(text, << >>)

\* stmtNode.Restore: the canonical text of a statement, keywords in capitals.
Canon(c) == IF c = "a" THEN "A" ELSE IF c = "b" THEN "B" ELSE c

Restore(node) == [i \in 1..Len(node) |-> Canon(node[i])]

\* (mutant) the buffer is not reset.
ResetKeeps(b) == b

\* buf.Reset()
Reset(b) == << >>

\* (mutant) the error of ExecContext is not looked at.
ExecFailedIgnored(execOk) == FALSE

\* The check of ExecContext's error in the loop.
ExecFailed(execOk) == ~execOk

\* The statement the loop takes after statement i.
NextStmt(i) == i + 1

InitExecFile ==
    /\ efVersion \in EfVersions
    /\ efpc = "start"
    /\ path \in Paths
    /\ file \in Files
    /\ fsReads = 0
    /\ stmtNodes = << >>
    /\ idx = 0
    /\ buf = << >>
    /\ execCalls = << >>
    /\ applied = << >>
    /\ efResult = StillRunning

\* ExecFile up to its loop: the path check, os.ReadFile, and then either
\* the one ExecContext call of the single-shot revision or parser.Parse.
ExecFileStart(execOk) ==
    /\ efpc = "start"
    /\ IF ~IsAbs(path)
       THEN /\ efResult' = ErrPath
            /\ efpc' = "done"
            /\ UNCHANGED <<fsReads, stmtNodes, idx, buf, execCalls, applied>>
       ELSE /\ fsReads' = fsReads + 1
            /\ IF file = NoFile
               THEN /\ efResult' = Wrapf(ErrRead, "failed to read file")
                    /\ efpc' = "done"
                    /\ UNCHANGED <<stmtNodes, idx, buf, execCalls, applied>>
               ELSE IF efVersion = "single"
               THEN /\ execCalls' = Append(execCalls, file)
                    /\ applied' = IF execOk THEN Append(applied, file) ELSE applied
                    /\ efResult' = IF execOk THEN Nil ELSE Wrap(ErrExecSQL)
                    /\ efpc' = "done"
                    /\ UNCHANGED <<stmtNodes, idx, buf>>
               ELSE IF ParseFails(file)
               THEN /\ efResult' = Wrapf(ErrParse, "failed to parse sql")
                    /\ efpc' = "done"
                    /\ UNCHANGED <<stmtNodes, idx, buf, execCalls, applied>>
               ELSE /\ stmtNodes' = Parse(file)
                    /\ idx' = 1
                    /\ buf' = << >>
                    /\ IF stmtNodes' = << >>
                       THEN efResult' = Nil /\ efpc' = "done"
                       ELSE efpc' = "loop" /\ UNCHANGED efResult
                    /\ UNCHANGED <<execCalls, applied>>
    /\ UNCHANGED <<txVars, taVars, ccVars>>
    /\ UNCHANGED <<efVersion, path, file>>

\* One turn of the loop over stmtNodes: reset the buffer, restore the
\* statement into it, execute the buffer's text; after the last statement
\* ExecFile returns nil.
ExecFileStmt(restoreOk, execOk) ==
    /\ efpc = "loop"
    /\ idx <= Len(stmtNodes)
    /\ IF ~restoreOk
       THEN /\ buf' = Reset(buf)
            /\ efResult' = Wrapf(ErrRestore, "failed to restore sql")
            /\ efpc' = "done"
            /\ UNCHANGED <<idx, execCalls, applied>>
       ELSE /\ buf' = Reset(buf) \o Restore(stmtNodes[idx])
            /\ execCalls' = Append(execCalls, buf')
            /\ applied' = IF execOk THEN Append(applied, buf') ELSE applied
            /\ IF ExecFailed(execOk)
               THEN /\ efResult' = Wrapf(ErrExecSQL, "failed to execute sql")
                    /\ efpc' = "done"
                    /\ UNCHANGED idx
               ELSE /\ idx' = NextStmt(idx)
                    /\ IF idx' > Len(stmtNodes)
                       THEN efResult' = Nil /\ efpc' = "done"
                       ELSE UNCHANGED <<efResult, efpc>>
    /\ UNCHANGED <<txVars, taVars, ccVars>>
    /\ UNCHANGED <<efVersion, path, file, fsReads, stmtNodes>>

----------------------------------------------------------------------------
(* TruncateAll *)

\* "list_first" collects the names with listAllTableNames and then
\* truncates; "streaming" truncates inside the rows.Next loop.
TaVersions == {"list_first", "streaming"}

Tables == 1..MaxTables

\* The sequences of distinct tables of length n.
RECURSIVE Listings(_)
Listings(n) ==
    IF n = 0 THEN {<< >>}
    ELSE {Append(l, t) : l \in Listings(n - 1),
                         t \in Tables} \cap
         {l \in Seq(Tables) : \A i, j \in DOMAIN l : i # j => l[i] # l[j]}

ErrQuery    == <<"query refused">>
ErrScan     == <<"scan refused">>
ErrRows     == <<"rows broken">>
ErrClose    == <<"close refused">>
ErrTruncate == <<"truncate refused">>

\* What TruncateAll returns for a failure e of the listing, wrapped by the
\* listing as msg.
ListErr(v, e, msg) ==
    IF v = "list_first"
    THEN Wrapf(Wrapf(e, msg), "failed to list all table names")
    ELSE Wrapf(e, msg)

\* (mutant) the truncate loop steps over a name.
NextTableSkips(k) == k + 2

\* The name the truncate loop takes after name k.
NextTable(k) == k + 1

InitTruncateAll ==
    /\ taVersion \in TaVersions
    /\ tapc = "start"
    /\ listing \in UNION {Listings(n) : n \in 0..MaxTables}
    /\ cursor = 0
    /\ tableNames = << >>
    /\ kTrunc = 0
    /\ tableRows = [t \in Tables |-> 1]
    /\ truncCalls = << >>
    /\ listFault = "none"
    /\ truncFault = FALSE
    /\ taResult = StillRunning

\* rows, err := QueryContext(ctx, `SHOW TABLES`)
TaQuery(ok) ==
    /\ tapc = "start"
    /\ IF ok
       THEN /\ tapc' = "rows"
            /\ UNCHANGED <<listFault, taResult>>
       ELSE /\ listFault' = "query"
            /\ taResult' = ListErr(taVersion, ErrQuery, "failed to show tables")
            /\ tapc' = "done"
    /\ UNCHANGED <<txVars, efVars, ccVars>>
    /\ UNCHANGED <<taVersion, listing, cursor, tableNames, kTrunc, tableRows,
                   truncCalls, truncFault>>

\* rows.Next() delivers a row: it is scanned, and then collected or, in
\* the streaming revision, truncated at once.
TaRow(scanOk, truncOk) ==
    /\ tapc = "rows"
    /\ cursor < Len(listing)
    /\ cursor' = cursor + 1
    /\ LET name == listing[cursor + 1] IN
       IF ~scanOk
       THEN /\ listFault' = "scan"
            /\ taResult' = ListErr(taVersion, ErrScan, "failed to scan table name")
            /\ tapc' = "done"
            /\ UNCHANGED <<tableNames, tableRows, truncCalls, truncFault>>
       ELSE IF taVersion = "list_first"
       THEN /\ tableNames' = Append(tableNames, name)
            /\ UNCHANGED <<tapc, tableRows, truncCalls, listFault, truncFault,
                           taResult>>
       ELSE /\ truncCalls' = Append(truncCalls, name)
            /\ IF truncOk
               THEN /\ tableRows' = [tableRows EXCEPT ![name] = 0]
                    /\ UNCHANGED <<tapc, truncFault, taResult>>
               ELSE /\ truncFault' = TRUE
                    /\ taResult' = Wrapf(ErrTruncate, "failed to truncate table")
                    /\ tapc' = "done"
                    /\ UNCHANGED tableRows
            /\ UNCHANGED <<tableNames, listFault>>
    /\ UNCHANGED <<txVars, efVars, ccVars>>
    /\ UNCHANGED <<taVersion, listing, kTrunc>>

\* rows.Next() yields false: the rows are used up (iterOk), or the
\* iteration broke and rows.Err() holds the error.  listAllTableNames then
\* checks rows.Close() and rows.Err(); the streaming revision returns nil.
TaRowsEnd(iterOk, closeOk) ==
    /\ tapc = "rows"
    /\ iterOk => cursor = Len(listing)
    /\ listFault' = IF ~iterOk THEN "iter"
                    ELSE IF taVersion = "list_first" /\ ~closeOk THEN "close"
                    ELSE listFault
    /\ IF taVersion = "list_first"
       THEN IF ~closeOk
            THEN /\ taResult' = ListErr(taVersion, ErrClose, "failed to close rows")
                 /\ tapc' = "done"
                 /\ UNCHANGED kTrunc
            ELSE IF ~iterOk
            THEN /\ taResult' = Wrapf(Wrap(ErrRows), "failed to list all table names")
                 /\ tapc' = "done"
                 /\ UNCHANGED kTrunc
            ELSE /\ kTrunc' = 1
                 /\ IF tableNames = << >>
                    THEN taResult' = Nil /\ tapc' = "done"
                    ELSE tapc' = "truncate" /\ UNCHANGED taResult
       ELSE /\ taResult' = Nil
            /\ tapc' = "done"
            /\ UNCHANGED kTrunc
    /\ UNCHANGED <<txVars, efVars, ccVars>>
    /\ UNCHANGED <<taVersion, listing, cursor, tableNames, tableRows,
                   truncCalls, truncFault>>

\* One turn of the loop over tableNames: ExecContext(`TRUNCATE `+tableName);
\* after the last name TruncateAll returns nil.
TaTruncate(ok) ==
    /\ tapc = "truncate"
    /\ kTrunc <= Len(tableNames)
    /\ truncCalls' = Append(truncCalls, tableNames[kTrunc])
    /\ IF ok
       THEN /\ tableRows' = [tableRows EXCEPT ![tableNames[kTrunc]] = 0]
            /\ kTrunc' = NextTable(kTrunc)
            /\ IF kTrunc' > Len(tableNames)
               THEN taResult' = Nil /\ tapc' = "done"
               ELSE UNCHANGED <<taResult, tapc>>
            /\ UNCHANGED truncFault
       ELSE /\ truncFault' = TRUE
            /\ taResult' = Wrapf(ErrTruncate, "failed to truncate table")
            /\ tapc' = "done"
            /\ UNCHANGED <<tableRows, kTrunc>>
    /\ UNCHANGED <<txVars, efVars, ccVars>>
    /\ UNCHANGED <<taVersion, listing, cursor, tableNames, listFault>>

\* No TruncateAll call is in progress.
NoTruncateAll ==
    /\ taVersion = "list_first"
    /\ tapc = "none"
    /\ listing = << >>
    /\ cursor = 0
    /\ tableNames = << >>
    /\ kTrunc = 0
    /\ tableRows = [t \in Tables |-> 1]
    /\ truncCalls = << >>
    /\ listFault = "none"
    /\ truncFault = FALSE
    /\ taResult = StillRunning

----------------------------------------------------------------------------
(* Concurrent Transact invocations *)

Procs == 1..NProcs

\* Handle 0 is the nil *sql.Tx; the others are what BeginTx hands out.
Handles == 1..NProcs
NilHandle == 0

\* (mutant) tx and err are package-level variables.
FrameShared(p) == 1

\* The frame holding an invocation's tx and err: they are locals of the
\* call, so every invocation has its own.
Frame(p) == p

\* The handle a successful BeginTx returns: one nobody holds yet.
FreshHandle ==
    CHOOSE h \in Handles :
        /\ handleState[h] = "unused"
        /\ \A g \in Handles : handleState[g] = "unused" => h <= g

InitConcurrent ==
    /\ cVersion \in Versions
    /\ cpc = [p \in Procs |-> "start"]
    /\ cTx = [p \in Procs |-> NilHandle]
    /\ cErr = [p \in Procs |-> Nil]
    /\ cOutcome = [p \in Procs |-> NoOutcome]
    /\ cResult = [p \in Procs |-> Pending]
    /\ owner = [h \in Handles |-> 0]
    /\ handleState = [h \in {NilHandle} \cup Handles |->
                         IF h = NilHandle THEN "nil" ELSE "unused"]
    /\ hCalls = [h \in {NilHandle} \cup Handles |-> << >>]
    /\ cCalls = [p \in Procs |-> << >>]

\* tx, err = txStarter.BeginTx(ctx, nil), and the early return.
CBeginTx(p, ok) ==
    /\ cpc[p] = "start"
    /\ IF ok
       THEN LET h == FreshHandle IN
            /\ owner' = [owner EXCEPT ![h] = p]
            /\ handleState' = [handleState EXCEPT ![h] = "open"]
            /\ cTx' = [cTx EXCEPT ![Frame(p)] = h]
            /\ cErr' = [cErr EXCEPT ![Frame(p)] = Nil]
            /\ cCalls' = [cCalls EXCEPT ![p] = Append(@, <<"BeginTx", h>>)]
            /\ cpc' = [cpc EXCEPT ![p] = "invoke"]
            /\ UNCHANGED cResult
       ELSE LET e == Wrapf(ErrBegin, "failed to begin transaction") IN
            /\ cTx' = [cTx EXCEPT ![Frame(p)] = NilHandle]
            /\ cErr' = [cErr EXCEPT ![Frame(p)] = e]
            /\ cResult' = [cResult EXCEPT ![p] = Returned(e)]
            /\ cCalls' = [cCalls EXCEPT ![p] = Append(@, <<"BeginTx", NilHandle>>)]
            /\ cpc' = [cpc EXCEPT ![p] = AfterBeginError]
            /\ UNCHANGED <<owner, handleState>>
    /\ UNCHANGED <<txVars, efVars, taVars>>
    /\ UNCHANGED <<cVersion, cOutcome, hCalls>>

\* The deferred function is registered and f(ctx, tx) is entered.
CInvokeF(p) ==
    /\ cpc[p] = "invoke"
    /\ cCalls' = [cCalls EXCEPT ![p] = Append(@, <<"f", cTx[Frame(p)]>>)]
    /\ cpc' = [cpc EXCEPT ![p] = "callback"]
    /\ UNCHANGED <<txVars, efVars, taVars>>
    /\ UNCHANGED <<cVersion, cTx, cErr, cOutcome, cResult, owner, handleState,
                   hCalls>>

\* err = f(ctx, tx) returns normally.
CFReturn(p, e) ==
    /\ cpc[p] = "callback"
    /\ cOutcome' = [cOutcome EXCEPT ![p] = Returned(e)]
    /\ cErr' = [cErr EXCEPT ![Frame(p)] = WorkErr(cVersion, e)]
    /\ cpc' = [cpc EXCEPT ![p] = "deferred"]
    /\ UNCHANGED <<txVars, efVars, taVars>>
    /\ UNCHANGED <<cVersion, cTx, cResult, owner, handleState, hCalls, cCalls>>

\* f does not return: it panics with r, or ends the goroutine.
CFAbort(p, o) ==
    /\ cpc[p] = "callback"
    /\ cOutcome' = [cOutcome EXCEPT ![p] = o]
    /\ cpc' = [cpc EXCEPT ![p] = "deferred"]
    /\ UNCHANGED <<txVars, efVars, taVars>>
    /\ UNCHANGED <<cVersion, cTx, cErr, cResult, owner, handleState, hCalls,
                   cCalls>>

\* The deferred function: recover, then roll back or commit.
CDeferred(p, ok) ==
    /\ cpc[p] = "deferred"
    /\ LET r  == Recover(cOutcome[p])
           e  == cErr[Frame(p)]
           b  == DeferBranch(r, e)
           cs == HandleCalls(b, ok)
           h  == cTx[Frame(p)]
           e2 == DeferredErr(b, e, ok)
       IN  /\ hCalls' = [hCalls EXCEPT ![h] =
                            @ \o [i \in 1..Len(cs) |-> <<p, cs[i]>>]]
           /\ cCalls' = [cCalls EXCEPT ![p] =
                            @ \o [i \in 1..Len(cs) |-> <<cs[i], h>>]]
           /\ handleState' = [handleState EXCEPT ![h] =
                                 IF @ = "open" THEN TxAfter(cs, ok) ELSE @]
           /\ cErr' = [cErr EXCEPT ![Frame(p)] = e2]
           /\ cResult' = [cResult EXCEPT ![p] =
                             IF b = "repanic" THEN Panicked(r)
                             ELSE IF cOutcome[p].kind = "goexit" THEN Exited
                             ELSE Returned(e2)]
    /\ cpc' = [cpc EXCEPT ![p] = "done"]
    /\ UNCHANGED <<txVars, efVars, taVars>>
    /\ UNCHANGED <<cVersion, cTx, cOutcome, owner>>

\* No concurrent Transact calls are in progress.
NoConcurrent ==
    /\ cVersion = "plain"
    /\ cpc = [p \in Procs |-> "none"]
    /\ cTx = [p \in Procs |-> NilHandle]
    /\ cErr = [p \in Procs |-> Nil]
    /\ cOutcome = [p \in Procs |-> NoOutcome]
    /\ cResult = [p \in Procs |-> Pending]
    /\ owner = [h \in Handles |-> 0]
    /\ handleState = [h \in {NilHandle} \cup Handles |->
                         IF h = NilHandle THEN "nil" ELSE "unused"]
    /\ hCalls = [h \in {NilHandle} \cup Handles |-> << >>]
    /\ cCalls = [p \in Procs |-> << >>]

\* No ExecFile call is in progress.
NoExecFile ==
    /\ efVersion = "single"
    /\ efpc = "none"
    /\ path = << >>
    /\ file = NoFile
    /\ fsReads = 0
    /\ stmtNodes = << >>
    /\ idx = 0
    /\ buf = << >>
    /\ execCalls = << >>
    /\ applied = << >>
    /\ efResult = StillRunning

\* No Transact call is in progress.
NoTransact ==
    /\ version = "plain"
    /\ pc = "none"
    /\ tx = "none"
    /\ db = [row \in Rows |-> 0]
    /\ txView = db
    /\ dbBefore = db
    /\ written = << >>
    /\ nExec = 0
    /\ calls = << >>
    /\ err = Nil
    /\ outcome = NoOutcome
    /\ result = Pending

----------------------------------------------------------------------------
(* Specifications *)

\* One Transact call.
Init == InitTransact /\ NoExecFile /\ NoTruncateAll /\ NoConcurrent

Next ==
    \/ \E ok \in BOOLEAN : BeginTx(ok)
    \/ InvokeF
    \/ \E row \in Rows, val \in Values, ok \in BOOLEAN : TxExec(row, val, ok)
    \/ \E e \in {Nil} \cup WorkErrors : FReturn(e)
    \/ FGoexit
    \/ \E r \in PanicValues : FPanic(r)
    \/ \E ok \in BOOLEAN : Deferred(ok)

Spec == Init /\ [][Next]_vars

\* One ExecFile call.
InitEF == InitExecFile /\ NoTransact /\ NoTruncateAll /\ NoConcurrent

NextEF ==
    \/ \E execOk \in BOOLEAN : ExecFileStart(execOk)
    \/ \E restoreOk \in BOOLEAN, execOk \in BOOLEAN :
           ExecFileStmt(restoreOk, execOk)

SpecExecFile == InitEF /\ [][NextEF]_vars

\* One TruncateAll call.
InitTA == InitTruncateAll /\ NoTransact /\ NoExecFile /\ NoConcurrent

NextTA ==
    \/ \E ok \in BOOLEAN : TaQuery(ok)
    \/ \E scanOk \in BOOLEAN, truncOk \in BOOLEAN : TaRow(scanOk, truncOk)
    \/ \E iterOk \in BOOLEAN, closeOk \in BOOLEAN : TaRowsEnd(iterOk, closeOk)
    \/ \E ok \in BOOLEAN : TaTruncate(ok)

SpecTruncateAll == InitTA /\ [][NextTA]_vars

\* Several Transact calls, interleaved in any way.
InitCC == InitConcurrent /\ NoTransact /\ NoExecFile /\ NoTruncateAll

NextCC ==
    \/ \E p \in Procs, ok \in BOOLEAN : CBeginTx(p, ok)
    \/ \E p \in Procs : CInvokeF(p)
    \/ \E p \in Procs, e \in {Nil} \cup WorkErrors : CFReturn(p, e)
    \/ \E p \in Procs, o \in {Exited} \cup {Panicked(r) : r \in PanicValues} :
           CFAbort(p, o)
    \/ \E p \in Procs, ok \in BOOLEAN : CDeferred(p, ok)

SpecConcurrent == InitCC /\ [][NextCC]_vars

----------------------------------------------------------------------------
(* Properties of Transact, under Spec *)

\* The number of Commit and Rollback calls Transact made on the handle.
NFinish ==
    Cardinality({i \in DOMAIN calls : calls[i] \in {"Commit", "Rollback"}})

\* The rows after the writes ws on the rows d.
RECURSIVE ApplyWrites(_, _)
ApplyWrites(d, ws) ==
    IF ws = << >> THEN d
    ELSE ApplyWrites([d EXCEPT ![ws[1][1]] = ws[1][2]], Tail(ws))

\* C1: once BeginTx succeeded, Transact calls at most one of Commit and
\* Rollback on the handle, and exactly one by the time it returns or
\* re-raises, whatever the callback and the call itself do.
C1_OneFinish ==
    /\ NFinish <= 1
    /\ (tx # "none" /\ result # Pending) => NFinish = 1

C1_Witness == pc = "done" /\ tx = "commit failed" /\ NFinish = 1

\* C2: when the callback returns a non-nil error e, Transact calls Rollback,
\* never Commit, and returns an error for which errors.Is(returned, e)
\* holds, in the revision that passes e through oops.Wrap too.
C2_WorkErrorReturned ==
    (pc = "done" /\ outcome.kind = "return" /\ outcome.err # Nil) =>
        /\ calls = <<"BeginTx", "f", "Rollback">>
        /\ result.kind = "return"
        /\ ErrorsIs(result.err, outcome.err)

C2_Witness ==
    /\ pc = "done"
    /\ version = "oops_wrap"
    /\ outcome = Returned(ErrSomethingWentWrong)
    /\ result.err # ErrSomethingWentWrong

\* C3: when the callback wrote through the handle and returned a failure,
\* the committed rows after Transact are the committed rows before it.
C3_RollbackTotal ==
    (result # Pending /\ outcome.kind = "return" /\ outcome.err # Nil) =>
        db = dbBefore

C3_Witness ==
    /\ pc = "done"
    /\ outcome.kind = "return"
    /\ outcome.err # Nil
    /\ Len(written) = 2
    /\ \A row \in Rows : txView[row] # dbBefore[row]

\* C4: when the callback returned nil and Transact returns nil, Commit was
\* called and succeeded and every write of the callback is in the
\* committed rows.
C4_CommitVisible ==
    (pc = "done" /\ outcome = Returned(Nil) /\ result = Returned(Nil)) =>
        /\ calls = <<"BeginTx", "f", "Commit">>
        /\ tx = "committed"
        /\ db = ApplyWrites(dbBefore, written)

C4_Witness ==
    /\ pc = "done"
    /\ result = Returned(Nil)
    /\ Len(written) = 2
    /\ \A row \in Rows : db[row] # dbBefore[row]

\* C5: when the callback returned nil, Transact calls Commit and nothing
\* after it; a failed Commit makes Transact return the commit error
\* wrapped as "failed to commit transaction", a successful one nil.
C5_CommitFailureReported ==
    (pc = "done" /\ outcome = Returned(Nil)) =>
        /\ calls = <<"BeginTx", "f", "Commit">>
        /\ tx = "commit failed" =>
               /\ result.kind = "return"
               /\ result.err # Nil
               /\ result.err # ErrCommit
               /\ result.err[1] = "failed to commit transaction"
               /\ ErrorsIs(result.err, ErrCommit)
        /\ tx = "committed" => result = Returned(Nil)

C5_Witness ==
    pc = "done" /\ outcome = Returned(Nil) /\ tx = "commit failed"

\* C6: when the callback does not return normally, Transact rolls back,
\* never commits, and passes the termination on as it was.
C6_AbnormalRollsBack ==
    (pc = "done" /\ outcome.kind \in {"panic", "goexit"}) =>
        /\ calls = <<"BeginTx", "f", "Rollback">>
        /\ db = dbBefore
        /\ result = outcome

\* C7: when BeginTx fails, Transact returns the begin error wrapped and
\* does nothing else: no callback, no Commit, no Rollback.
C7_BeginFailure ==
    (calls # << >> /\ tx = "none") =>
        /\ calls = <<"BeginTx">>
        /\ pc = "done"
        /\ result = Returned(<<"failed to begin transaction">> \o ErrBegin)
        /\ db = dbBefore

C7_Witness == pc = "done" /\ tx = "none" /\ calls = <<"BeginTx">>

\* C8: what Transact reports after a Rollback is the callback's error, or
\* the callback's panic value, whether the Rollback succeeded or failed.
C8_RollbackOutcomeIgnored ==
    (pc = "done" /\ tx \in {"rolled back", "rollback failed"}) =>
        result = IF outcome.kind = "panic"
                 THEN Panicked(outcome.r)
                 ELSE Returned(IF version = "oops_wrap"
                               THEN <<"">> \o outcome.err
                               ELSE outcome.err)

C8_Witness ==
    pc = "done" /\ tx = "rollback failed" /\ outcome.kind = "return"

----------------------------------------------------------------------------
(* Properties of ExecFile, under SpecExecFile *)

\* C9: for a path that does not start with a slash ExecFile returns the
\* "path must be absolute" error without reading a file and without an
\* ExecContext call.
C9_RelativePathRejected ==
    (efpc = "done" /\ (path = << >> \/ path[1] # "/")) =>
        /\ efResult = ErrPath
        /\ fsReads = 0
        /\ execCalls = << >>

C9_Witness ==
    /\ efpc = "done"
    /\ path = <<".", "/", "s">>
    /\ file # NoFile
    /\ efResult = ErrPath

\* C10: in the parsed revision the i-th ExecContext call carries the
\* restored text of the i-th statement, and when nothing failed there are
\* as many calls as statements and ExecFile returns nil.
C10_OneCallPerStatement ==
    efVersion = "parsed" =>
        /\ Len(execCalls) <= Len(stmtNodes)
        /\ \A i \in DOMAIN execCalls : execCalls[i] = Restore(stmtNodes[i])
        /\ (/\ efpc = "done"
            /\ fsReads = 1
            /\ file # NoFile
            /\ ~ParseFails(file)
            /\ applied = execCalls
            /\ efResult # Wrapf(ErrRestore, "failed to restore sql")) =>
               /\ efResult = Nil
               /\ Len(execCalls) = Len(stmtNodes)

C10_Witness ==
    /\ efVersion = "parsed"
    /\ efpc = "done"
    /\ efResult = Nil
    /\ Len(execCalls) = 2
    /\ execCalls[1] # execCalls[2]

\* C11: ExecFile stops at the first failure and returns that phase's error
\* wrapped.  A read or parse failure makes no ExecContext call; a failure
\* to restore or to execute statement k leaves exactly the statements
\* before k executed and applied, and nothing after k is executed.
C11_AbortAtFirstFailure ==
    /\ Len(applied) <= Len(execCalls)
    /\ Len(execCalls) <= Len(applied) + 1
    /\ \A i \in DOMAIN applied : applied[i] = execCalls[i]
    /\ Len(applied) < Len(execCalls) =>
           /\ efpc = "done"
           /\ efResult = IF efVersion = "parsed"
                         THEN <<"failed to execute sql">> \o ErrExecSQL
                         ELSE <<"">> \o ErrExecSQL
    /\ (efpc = "done" /\ fsReads = 1 /\ file = NoFile) =>
           /\ efResult = <<"failed to read file">> \o ErrRead
           /\ execCalls = << >>
    /\ (efpc = "done" /\ efVersion = "parsed" /\ fsReads = 1
            /\ file # NoFile /\ ParseFails(file)) =>
           /\ efResult = <<"failed to parse sql">> \o ErrParse
           /\ execCalls = << >>
    /\ (efpc = "done" /\ efVersion = "parsed"
            /\ Len(applied) = Len(execCalls)
            /\ Len(execCalls) < Len(stmtNodes)) =>
           /\ efResult = <<"failed to restore sql">> \o ErrRestore
           /\ idx = Len(execCalls) + 1
    /\ (efpc = "done" /\ efVersion = "parsed") =>
           \A i \in DOMAIN execCalls : execCalls[i] = Restore(stmtNodes[i])

C11_Witness ==
    /\ efVersion = "parsed"
    /\ efpc = "done"
    /\ Len(stmtNodes) = 3
    /\ Len(execCalls) = 2
    /\ Len(applied) = 1
    /\ efResult = <<"failed to execute sql">> \o ErrExecSQL

----------------------------------------------------------------------------
(* Properties of TruncateAll, under SpecTruncateAll *)

\* C12: when the listing and every TRUNCATE succeed, TruncateAll truncates
\* the listed tables once each, in listing order, returns nil, and every
\* listed table is empty afterwards.
C12_TruncatesEachListedTable ==
    (tapc = "done" /\ listFault = "none" /\ ~truncFault) =>
        /\ taResult = Nil
        /\ truncCalls = listing
        /\ \A i \in DOMAIN listing : tableRows[listing[i]] = 0

C12_Witness ==
    /\ tapc = "done"
    /\ taVersion = "list_first"
    /\ taResult = Nil
    /\ Len(listing) = 3
    /\ truncCalls = listing

\* C13: after a failure of the listing (query, scan, row iteration) or of
\* a TRUNCATE, TruncateAll has returned a non-nil error and has truncated
\* nothing after the failing step.
C13_AbortsOnFirstFailure ==
    /\ (listFault # "none" \/ truncFault) =>
           /\ tapc = "done"
           /\ taResult # Nil
           /\ taResult # StillRunning
    /\ Len(truncCalls) <= cursor
    /\ \A i \in DOMAIN truncCalls : truncCalls[i] = listing[i]

----------------------------------------------------------------------------
(* Properties of concurrent Transact calls, under SpecConcurrent *)

\* The handles an invocation began.
Own(p) == {h \in Handles : owner[h] = p}

\* What invocation p reports, from its own begin, callback and commit alone.
OwnReport(p) ==
    IF Own(p) = {}
    THEN Returned(<<"failed to begin transaction">> \o ErrBegin)
    ELSE LET o == cOutcome[p]
             h == CHOOSE g \in Own(p) : TRUE
         IN  IF o.kind = "panic" /\ o.r # PanicNil THEN Panicked(o.r)
             ELSE IF o.kind = "return" /\ o.err # Nil
             THEN Returned(IF cVersion = "oops_wrap"
                           THEN <<"">> \o o.err ELSE o.err)
             ELSE IF o.kind = "goexit" THEN Exited
             ELSE IF handleState[h] = "committed" THEN Returned(Nil)
             ELSE Returned(<<"failed to commit transaction">> \o ErrCommit)

\* C14: however the invocations interleave, a handle gets Commit or
\* Rollback calls only from the invocation that began it, exactly one by
\* the time that invocation is over, and what an invocation reports
\* follows from its own begin, callback and commit.
C14_InvocationsIndependent ==
    /\ hCalls[NilHandle] = << >>
    /\ \A h \in Handles :
           /\ Len(hCalls[h]) <= 1
           /\ \A i \in DOMAIN hCalls[h] : hCalls[h][i][1] = owner[h]
           /\ owner[h] = 0 => hCalls[h] = << >>
           /\ (owner[h] # 0 /\ cpc[owner[h]] = "done") => Len(hCalls[h]) = 1
    /\ \A p \in Procs :
           /\ Cardinality(Own(p)) <= 1
           /\ cpc[p] = "done" => cResult[p] = OwnReport(p)

C14_Witness ==
    /\ cpc[1] = "done"
    /\ cpc[2] = "done"
    /\ owner[1] = 2
    /\ owner[2] = 1
    /\ handleState[1] = "committed"
    /\ handleState[2] = "rollback failed"
    /\ cResult[2] = Returned(Nil)
    /\ cResult[1].kind = "panic"

\* C15: an invocation calls BeginTx once, then, if it got a handle, the
\* callback once with that handle, then Commit or Rollback once on that
\* handle; no failure makes it repeat a step.
C15_NoRetryInOrder ==
    \A p \in Procs :
        LET cs == cCalls[p] IN
        /\ Len(cs) <= 3
        /\ Len(cs) >= 1 => cs[1][1] = "BeginTx"
        /\ (Len(cs) >= 1 /\ cs[1][2] = NilHandle) => Len(cs) = 1
        /\ Len(cs) >= 2 => cs[2] = <<"f", cs[1][2]>>
        /\ Len(cs) >= 3 =>
               /\ cs[3][1] \in {"Commit", "Rollback"}
               /\ cs[3][2] = cs[1][2]
        /\ cpc[p] = "done" => Len(cs) \in {1, 3}
        /\ cpc[p] = "deferred" => Len(cs) = 2

C15_Witness ==
    /\ cpc[1] = "done"
    /\ cpc[2] = "callback"
    /\ cCalls[1] = <<<<"BeginTx", 2>>, <<"f", 2>>, <<"Commit", 2>>>>
    /\ handleState[2] = "commit failed"
    /\ cCalls[2] = <<<<"BeginTx", 1>>, <<"f", 1>>>>

----------------------------------------------------------------------------
(* A further property of Transact, under Spec *)

\* C16: Transact calls Commit only when the callback returned normally
\* with a nil error.
C16_CommitOnlyAfterNilReturn ==
    (\E i \in DOMAIN calls : calls[i] = "Commit") => outcome = Returned(Nil)

====
